---------------------------- MODULE Spec2Model ----------------------------
(***************************************************************************)
(* Model of the SECOP incremental ingestion (etl/ingest_secop_daily.py)    *)
(* and of the daily aggregation (src/metrics.py).                          *)
(*                                                                         *)
(* A DataFrame is [cols |-> set of column names, rows |-> sequence of      *)
(* rows]; a row is a function from every field name to a value, NA in the  *)
(* columns the frame does not have.  A timestamp is day*TicksPerDay + time *)
(* of day, a day is a proleptic Gregorian ordinal (datetime.date).         *)
(***************************************************************************)
EXTENDS Integers, Sequences, FiniteSets, TLC

VARIABLES
    today,      \* datetime.date.today(), an ordinal
    store,      \* path -> the parquet file: Absent, Partial or a DataFrame
    pc,         \* position of the running process
    pending,    \* the frame to_parquet is writing (df_all)
    target,     \* the path the current call works on
    subset_cols,\* the dedup key every merge of this behaviour passes
    prev,       \* the file at target before the last call
    batch,      \* df_new of the last append_to_parquet call
    op,         \* what the last completed step was
    remerged,   \* the last two merges were given the same batch
    wm,         \* the last value get_last_date_from_parquet returned
    upstream,   \* source -> the records the remote dataset holds
    raw,        \* the frame read_json returned to the last fetch
    fetched,    \* what the last fetch returned (or Raised)
    snap,       \* the files as they were when the current run of main began
    df_in,      \* the frame handed to build_daily_metrics
    daily,      \* what build_daily_metrics returned
    last_n_days, \* the dashboard's day-window slider
    df_secop,   \* source -> the dashboard's frame of the records in the window
    view        \* what the dashboard request has shown

hist == <<prev, batch, op, remerged>>
runVars == <<upstream, raw, fetched, snap>>
aggVars == <<df_in, daily>>
dashVars == <<last_n_days, df_secop, view>>

vars == <<today, store, pc, pending, target, subset_cols, prev, batch, op,
          remerged, wm, upstream, raw, fetched, snap, df_in, daily, last_n_days,
          df_secop, view>>

----------------------------------------------------------------------------
(* Bounds of the model *)

\* distinct times of day a timestamp can carry
TicksPerDay == 2
\* longest batch handed to append_to_parquet
MaxBatch == 2
\* longest payload handed to a fetcher on its own
MaxRaw == 2
\* records published upstream, over both sources
MaxUpstream == 2
\* days that pass
MaxDays == 1
\* longest frame handed to build_daily_metrics
MaxAggRows == 3
\* most records of a store the dashboard reads
MaxDashRows == 2

\* default_days_back of get_last_date_from_parquet
DefaultDaysBack == 365
\* the value the dashboard's slider starts with
SliderDefault == 90

----------------------------------------------------------------------------
(* Dates *)

IsLeap(y) == (y % 4 = 0) /\ ((y % 100 # 0) \/ (y % 400 = 0))

DaysBeforeYear(y) ==
    (y - 1) * 365 + ((y - 1) \div 4) - ((y - 1) \div 100) + ((y - 1) \div 400)

DaysInMonth(y, m) ==
    IF m = 2 THEN (IF IsLeap(y) THEN 29 ELSE 28)
    ELSE IF m \in {4, 6, 9, 11} THEN 30 ELSE 31

RECURSIVE DaysBeforeMonth(_, _)
DaysBeforeMonth(y, m) ==
    IF m = 1 THEN 0 ELSE DaysBeforeMonth(y, m - 1) + DaysInMonth(y, m - 1)

\* datetime.date(y, m, d).toordinal()
DateOrdinal(y, m, d) == DaysBeforeYear(y) + DaysBeforeMonth(y, m) + d

\* the day the model starts on
Today0 == DateOrdinal(2024, 6, 1)

\* a timestamp on day d at time of day t
TS(d, t) == d * TicksPerDay + t

\* Timestamp.date(): the time component removed
DateOf(ts) == ts \div TicksPerDay

----------------------------------------------------------------------------
(* Frames *)

\* cells: a missing value (NaN, NaT, None), a number, a timestamp, a text
NaC == [k |-> "na"]
Num(n) == [k |-> "num", n |-> n]
Stamp(t) == [k |-> "ts", t |-> t]
Txt(s) == [k |-> "str", s |-> s]
\* cells of the raw payload: a date text "y-m-dTt", a text of decimal digits,
\* a JSON object (with or without a url member)
DateStr(ymd, t) == [k |-> "date_str", ymd |-> ymd, t |-> t]
NumStr(ds) == [k |-> "num_str", digits |-> ds]
Dict(has_url, u) == [k |-> "dict", has_url |-> has_url, url |-> u]

Sources == {"secop1", "secop2"}

\* generic names of the columns the fetchers keep: the date column is
\* fecha_de_cargue_en_el_secop / fecha_de_firma, the value column is
\* cuantia_contrato / valor_del_contrato, the url column is
\* ruta_proceso_en_secop_i / urlproceso
Cols == {"nombre_entidad", "valor", "fecha", "url"}

\* a DataFrame in memory, or the parquet file holding one (st = "ok")
Frame(cs, rs) == [st |-> "ok", cols |-> cs, rows |-> rs]

\* no file at the path
Absent == [st |-> "absent", cols |-> {}, rows |-> <<>>]

\* a file that to_parquet has opened and not finished writing
Partial == [st |-> "partial", cols |-> {}, rows |-> <<>>]

EmptyFrame == Frame({}, <<>>)

\* DataFrame.empty
IsEmpty(df) == df.cols = {} \/ Len(df.rows) = 0

\* a column of the payload that is not in the fetchers' list
AllFields == Cols \cup {"otro"}

RawRow(n, f, v, u, o) ==
    [nombre_entidad |-> n, fecha |-> f, valor |-> v, url |-> u, otro |-> o]

Row(n, f, v, u) == RawRow(n, f, v, u, NaC)

\* pd.concat([a, b], ignore_index=True): union of the columns, a's rows first
Concat(a, b) == Frame(a.cols \cup b.cols, a.rows \o b.rows)

\* two rows are duplicates under the key (all columns when no key is given)
SameKey(r1, r2, key, cols) ==
    \A c \in (IF key = {} THEN cols ELSE key) : r1[c] = r2[c]

\* drop_duplicates as it would be with keep="last"
DropDuplicatesKeepLast(df, key) ==
    LET n == Len(df.rows)
        F[i \in 0..n] ==
            IF i = 0 THEN <<>>
            ELSE IF \E j \in (i + 1)..n : SameKey(df.rows[j], df.rows[i], key, df.cols)
                 THEN F[i - 1]
                 ELSE Append(F[i - 1], df.rows[i])
    IN  [st |-> "ok", cols |-> df.cols, rows |-> F[n]]

\* DataFrame.drop_duplicates(subset=key), keep="first"; key = {} is
\* subset_cols=None
DropDuplicates(df, key) ==
    LET n == Len(df.rows)
        F[i \in 0..n] ==
            IF i = 0 THEN <<>>
            ELSE IF \E j \in 1..(i - 1) : SameKey(df.rows[j], df.rows[i], key, df.cols)
                 THEN F[i - 1]
                 ELSE Append(F[i - 1], df.rows[i])
    IN  Frame(df.cols, F[n])

\* append_to_parquet as it would be if it wrote df_new over the file
MergedFrameOverwrite(file, df_new, key) == df_new

\* df_all of append_to_parquet for a non-empty df_new and a readable file
MergedFrame(file, df_new, key) ==
    IF file.st = "absent" THEN df_new
    ELSE DropDuplicates(Concat(file, df_new), key)

\* pandas max() of the date column: missing values are skipped
MaxFecha(rows) ==
    LET S == {rows[i].fecha.t : i \in {j \in 1..Len(rows) : rows[j].fecha.k = "ts"}}
    IN  IF S = {} THEN NaC ELSE Stamp(CHOOSE x \in S : \A y \in S : y <= x)

\* get_last_date_from_parquet as it would be with the lookback off by one day
LastDateOffByOne(file, day) ==
    IF file.st = "absent" \/ IsEmpty(file) THEN [k |-> "num", n |-> day - DefaultDaysBack + 1]
    ELSE LET S == {file.rows[i].fecha.t : i \in 1..Len(file.rows)}
         IN  [k |-> "num", n |-> (CHOOSE x \in S : \A y \in S : y <= x) \div TicksPerDay]

\* get_last_date_from_parquet(path, fecha_col) for a readable file: a day,
\* or NaC when no stored date is present
LastDate(file, day) ==
    IF file.st = "absent" THEN Num(day - DefaultDaysBack)
    ELSE IF IsEmpty(file) THEN Num(day - DefaultDaysBack)
    ELSE LET m == MaxFecha(file.rows)
         IN  IF m.k = "ts" THEN Num(DateOf(m.t)) ELSE NaC

----------------------------------------------------------------------------
(* The fetchers: fetch_secop1_since and fetch_secop2_since are the same code
   over different column names *)

\* 1e6 of "/ 1e6"
Million == 1000000

\* the $limit of the query
Limit == 300000

\* years the model's dates lie in
Years == 2022..2025

\* <<y, m, d>> of the ordinal n
YearMonthDay(n) ==
    LET y == CHOOSE yy \in Years : DaysBeforeYear(yy) < n /\ n <= DaysBeforeYear(yy + 1)
        r == n - DaysBeforeYear(y)
        m == CHOOSE mm \in 1..12 :
                 DaysBeforeMonth(y, mm) < r /\ r <= DaysBeforeMonth(y, mm) + DaysInMonth(y, mm)
    IN  <<y, m, r - DaysBeforeMonth(y, m)>>

\* the calendar of the model's years, computed once
Calendar == [n \in (DateOrdinal(2022, 1, 1))..(DateOrdinal(2025, 12, 31)) |-> YearMonthDay(n)]

\* datetime.date.fromordinal(n), as <<y, m, d>>
FromOrdinal(n) == Calendar[n]

\* start_date.strftime("%Y-%m-%d"): the fields of the text, most significant first
StartStr(start_date) == FromOrdinal(start_date)

\* the text of a timestamp as the source serves it
DateText(ts) == DateStr(FromOrdinal(DateOf(ts)), ts % TicksPerDay)

\* text comparison of two dates written year-month-day
YmdGeq(a, b) ==
    \/ a[1] > b[1]
    \/ a[1] = b[1] /\ a[2] > b[2]
    \/ a[1] = b[1] /\ a[2] = b[2] /\ a[3] >= b[3]

\* the source's $where=<date field> >= '<start_str>': a missing date never
\* matches; a text that is no date compares as text and sorts after the digits
Matches(row, start_str) ==
    \/ row.fecha.k = "date_str" /\ YmdGeq(row.fecha.ymd, start_str)
    \/ row.fecha.k = "str"

\* the records the source returns for the query, at most $limit of them
Response(up, start_date) ==
    LET m == SelectSeq(up, LAMBDA r : Matches(r, StartStr(start_date)))
    IN  SubSeq(m, 1, IF Len(m) < Limit THEN Len(m) ELSE Limit)

\* pd.read_json of a list of records: the columns are the keys that occur
ReadJson(records) ==
    Frame({c \in AllFields : \E i \in 1..Len(records) : records[i][c] # NaC}, records)

RECURSIVE DigitsValue(_)
DigitsValue(ds) ==
    IF Len(ds) = 0 THEN 0 ELSE 10 * DigitsValue(SubSeq(ds, 1, Len(ds) - 1)) + ds[Len(ds)]

\* pd.to_numeric(x, errors="coerce").fillna(0): what is no number counts as 0
ToNumericFillZero(c) ==
    IF c.k = "num" THEN c
    ELSE IF c.k = "num_str" /\ Len(c.digits) > 0 THEN Num(DigitsValue(c.digits))
    ELSE Num(0)

\* pd.to_numeric(x, errors="coerce")
ToNumeric(c) ==
    IF c.k = "num" THEN c
    ELSE IF c.k = "num_str" /\ Len(c.digits) > 0 THEN Num(DigitsValue(c.digits))
    ELSE NaC

\* x / 1e6 (exact on the model's values, which are multiples of 1e6)
PerMillion(c) == IF c.k = "num" THEN Num(c.n \div Million) ELSE NaC

\* pd.to_datetime(x, errors="coerce")
ToDatetime(c) ==
    IF c.k = "ts" THEN c
    ELSE IF /\ c.k = "date_str"
            /\ c.ymd[2] \in 1..12
            /\ c.ymd[3] \in 1..DaysInMonth(c.ymd[1], c.ymd[2])
            /\ c.t \in 0..(TicksPerDay - 1)
         THEN Stamp(TS(DateOrdinal(c.ymd[1], c.ymd[2], c.ymd[3]), c.t))
    ELSE NaC

\* extract_url_secop1 / extract_url_secop2
ExtractUrl(c) == IF c.k = "dict" /\ c.has_url THEN Txt(c.url) ELSE c

\* df[[c for c in cols if c in df.columns]]
Project(df) ==
    Frame(df.cols \cap Cols, [i \in 1..Len(df.rows) |-> [df.rows[i] EXCEPT !.otro = NaC]])

\* an exception raised instead of a frame returned
Raised == [st |-> "error", cols |-> {}, rows |-> <<>>]

\* df.dropna(subset=[date column, value column])
DropNa(df) == Frame(df.cols, SelectSeq(df.rows, LAMBDA r : r.fecha # NaC /\ r.valor # NaC))

\* the fetcher as it would be without the final dropna
FetchFrameNoDrop(df) ==
    IF Len(df.rows) = 0 THEN df
    ELSE LET p == Project(df)
         IN  IF "valor" \notin p.cols \/ "fecha" \notin p.cols THEN Raised
             ELSE Frame(p.cols, [i \in 1..Len(p.rows) |->
                         [p.rows[i] EXCEPT !.valor = PerMillion(ToNumeric(@)),
                                           !.fecha = ToDatetime(@),
                                           !.url = ExtractUrl(@)]])

\* fetch_secop1_since / fetch_secop2_since from the frame read_json returned:
\* df["<value column>"] and df["<date column>"] raise KeyError when the
\* projected frame lacks the column
FetchFrame(df) ==
    IF Len(df.rows) = 0 THEN df
    ELSE LET p == Project(df)
         IN  IF "valor" \notin p.cols THEN Raised
             ELSE IF "fecha" \notin p.cols THEN Raised
             ELSE LET conv == [i \in 1..Len(p.rows) |->
                                 [p.rows[i] EXCEPT
                                     !.valor = PerMillion(ToNumeric(@)),
                                     !.fecha = ToDatetime(@),
                                     !.url = IF "url" \in p.cols THEN ExtractUrl(@) ELSE @]]
                  IN  DropNa(Frame(p.cols, conv))

----------------------------------------------------------------------------
(* Inputs of the merge-level specification *)

\* midnight of a day before the default watermark, and a later time of a
\* recent day
OldStamp == TS(Today0 - DefaultDaysBack - 1, 0)
RecentStamp == TS(Today0 - 1, 1)

\* two rows of one entity with different dates, and a row of another entity
SampleRows ==
    { Row(Txt("E1"), Stamp(OldStamp), Num(10), Txt("u")),
      Row(Txt("E1"), Stamp(RecentStamp), Num(10), Txt("u")),
      Row(Txt("E2"), Stamp(RecentStamp), Num(10), Txt("u")) }

SeqsUpTo(S, n) == UNION {[1..k -> S] : k \in 0..n}

Batches == {Frame(IF Len(rs) = 0 THEN {} ELSE Cols, rs) : rs \in SeqsUpTo(SampleRows, MaxBatch)}

\* subset_cols: {} stands for None
KeySettings == {{}, {"nombre_entidad"}}

AllAbsent == [s \in Sources |-> Absent]

NoRecords == [s \in Sources |-> <<>>]
\* the dashboard has loaded nothing
NoFrames == [s \in Sources |-> EmptyFrame]

----------------------------------------------------------------------------
(* append_to_parquet, get_last_date_from_parquet *)

\* append_to_parquet up to the moment to_parquet opens the file for writing
AppendBegin(df_new, path) ==
    /\ pc = "idle"
    /\ IsEmpty(df_new) \/ store[path].st # "partial"
    /\ target' = path
    /\ batch' = df_new
    /\ prev' = store[path]
    /\ remerged' = (op = "merge" /\ batch = df_new /\ target = path)
    /\ IF IsEmpty(df_new)
       THEN /\ op' = "noop"
            /\ UNCHANGED <<store, pc, pending>>
       ELSE /\ pending' = MergedFrame(store[path], df_new, subset_cols)
            /\ store' = [store EXCEPT ![path] = Partial]
            /\ pc' = "writing"
            /\ op' = "writing"
    /\ UNCHANGED <<today, subset_cols, wm, runVars, aggVars, dashVars>>

\* to_parquet returns: the file holds df_all
WriteFinish ==
    /\ pc = "writing"
    /\ store' = [store EXCEPT ![target] = pending]
    /\ pc' = "idle"
    /\ op' = "merge"
    /\ UNCHANGED <<today, pending, target, subset_cols, prev, batch, remerged, wm, runVars, aggVars, dashVars>>

\* to_parquet fails, or the process dies, with the file open
WriteCrash ==
    /\ pc = "writing"
    /\ pc' = "idle"
    /\ op' = "crash"
    /\ UNCHANGED <<today, store, pending, target, subset_cols, prev, batch, remerged, wm,
                   runVars, aggVars, dashVars>>

\* append_to_parquet of a non-empty batch, or get_last_date_from_parquet, on a
\* file that cannot be read: read_parquet raises
ReadError(path) ==
    /\ pc = "idle"
    /\ store[path].st = "partial"
    /\ op # "read_error"
    /\ op' = "read_error"
    /\ target' = path
    /\ prev' = store[path]
    /\ UNCHANGED <<today, store, pc, pending, subset_cols, batch, remerged, wm, runVars, aggVars, dashVars>>

GetLastDate(path) ==
    /\ pc = "idle"
    /\ store[path].st # "partial"
    /\ wm' = LastDate(store[path], today)
    /\ op' = "last_date"
    /\ target' = path
    /\ prev' = store[path]
    /\ UNCHANGED <<today, store, pc, pending, subset_cols, batch, remerged, runVars, aggVars, dashVars>>

Init ==
    /\ today = Today0
    /\ store \in {AllAbsent, [AllAbsent EXCEPT !["secop1"] = Frame(Cols, <<>>)]}
    /\ pc = "idle"
    /\ pending = EmptyFrame
    /\ target = "secop1"
    /\ subset_cols \in KeySettings
    /\ prev = Absent
    /\ batch = EmptyFrame
    /\ op = "init"
    /\ remerged = FALSE
    /\ wm = NaC
    /\ upstream = NoRecords
    /\ raw = EmptyFrame
    /\ fetched = EmptyFrame
    /\ snap = AllAbsent
    /\ df_in = EmptyFrame
    /\ daily = EmptyFrame
    /\ last_n_days = SliderDefault
    /\ df_secop = NoFrames
    /\ view = "none"

Next ==
    \/ \E b \in Batches : AppendBegin(b, "secop1")
    \/ WriteFinish
    \/ WriteCrash
    \/ ReadError("secop1")
    \/ GetLastDate("secop1")

Spec == Init /\ [][Next]_vars

----------------------------------------------------------------------------
(* A fetcher applied to one payload *)

TenMillion == <<1, 0, 0, 0, 0, 0, 0, 0>>

RawNames == {NaC, Txt("E1")}
RawDates == {NaC, DateStr(<<2024, 5, 31>>, 1), DateStr(<<2024, 2, 30>>, 0), Txt("n/d")}
RawValues == {NaC, NumStr(TenMillion), Txt("abc")}
RawUrls == {NaC, Dict(TRUE, "u")}

RawRows == {RawRow(n, f, v, u, Txt("x")) : n \in RawNames, f \in RawDates,
                                            v \in RawValues, u \in RawUrls}

RawFrames == {ReadJson(rs) : rs \in SeqsUpTo(RawRows, MaxRaw)}

FetchInit ==
    /\ today = Today0
    /\ store = AllAbsent
    /\ pc = "fetch_in"
    /\ pending = EmptyFrame
    /\ target = "secop1"
    /\ subset_cols = {}
    /\ prev = Absent
    /\ batch = EmptyFrame
    /\ op = "init"
    /\ remerged = FALSE
    /\ wm = NaC
    /\ upstream = NoRecords
    /\ raw \in RawFrames
    /\ fetched = EmptyFrame
    /\ snap = AllAbsent
    /\ df_in = EmptyFrame
    /\ daily = EmptyFrame
    /\ last_n_days = SliderDefault
    /\ df_secop = NoFrames
    /\ view = "none"

\* fetch_secop1_since / fetch_secop2_since after read_json returned raw
FetchApply ==
    /\ pc = "fetch_in"
    /\ fetched' = FetchFrame(raw)
    /\ pc' = "fetch_out"
    /\ UNCHANGED <<today, store, pending, target, subset_cols, hist, wm, upstream, raw, snap,
                   aggVars, dashVars>>

FetchSpec == FetchInit /\ [][FetchApply]_vars

----------------------------------------------------------------------------
(* main: one ingestion run after another, the sources gaining records *)

\* the records a source may gain on a day.  SECOP 1 is queried by
\* fecha_de_cargue_en_el_secop, the day the record was loaded: a valid record,
\* a second valid one of the same day, one with a value that is no number, one
\* with no value, name or url, and one with a date that is no date.  SECOP 2
\* is queried by fecha_de_firma, the day of signature, which is entered by
\* hand: a valid record and a valid one dated the day after
PublishRows(s, day) ==
    IF s = "secop1"
    THEN { RawRow(Txt("E1"), DateText(TS(day, 1)), NumStr(TenMillion), Dict(TRUE, "u"),
                  Txt("x")),
           RawRow(Txt("E2"), DateText(TS(day, 0)), NumStr(TenMillion), NaC, Txt("x")),
           RawRow(Txt("E1"), DateText(TS(day, 0)), Txt("abc"), NaC, Txt("x")),
           RawRow(NaC, DateText(TS(day, 0)), NaC, NaC, Txt("x")),
           RawRow(Txt("E1"), Txt("n/d"), NumStr(TenMillion), Dict(TRUE, "u"), Txt("x")) }
    ELSE { RawRow(Txt("E1"), DateText(TS(day, 1)), NumStr(TenMillion), Dict(TRUE, "u"),
                  Txt("x")),
           RawRow(Txt("E1"), DateText(TS(day + 1, 0)), NumStr(TenMillion), NaC, Txt("x")) }

Published == Len(upstream["secop1"]) + Len(upstream["secop2"])

\* the remote dataset gains a record (between runs: a record that appears
\* during a run is seen by the run as one that appeared before or after it)
Publish(s, r) ==
    /\ pc = "idle"
    /\ Published < MaxUpstream
    /\ upstream' = [upstream EXCEPT ![s] = Append(@, r)]
    /\ UNCHANGED <<today, store, pc, pending, target, subset_cols, hist, wm, raw, fetched,
                   snap, aggVars, dashVars>>

\* midnight passes (between runs)
Tick ==
    /\ pc = "idle"
    /\ today < Today0 + MaxDays
    /\ today' = today + 1
    /\ UNCHANGED <<store, pc, pending, target, subset_cols, hist, wm, runVars, aggVars, dashVars>>

\* main() is started
MainStart ==
    /\ pc = "idle"
    /\ pc' = "last_date"
    /\ target' = "secop1"
    /\ snap' = store
    /\ op' = "start"
    /\ UNCHANGED <<today, store, pending, subset_cols, prev, batch, remerged, wm, upstream,
                   raw, fetched, aggVars, dashVars>>

\* last_date = get_last_date_from_parquet(path, fecha_col);
\* start = last_date + 1 day; if start <= today
MainLastDate ==
    /\ pc = "last_date"
    /\ IF store[target].st = "partial"
       THEN /\ pc' = "failed"
            /\ op' = "read_error"
            /\ wm' = wm
       ELSE /\ wm' = LastDate(store[target], today)
            /\ op' = "last_date"
            /\ pc' = IF wm'.k = "num" /\ wm'.n + 1 <= today THEN "fetch" ELSE "next"
    /\ UNCHANGED <<today, store, pending, target, subset_cols, prev, batch, remerged,
                   runVars, aggVars, dashVars>>

\* the fetch wrapped in try/except: the failure is printed and the section of
\* the source is left
MainFetchFailSkipped ==
    /\ pc = "fetch"
    /\ pc' = "next"
    /\ op' = "fetch_error"
    /\ fetched' = Raised
    /\ UNCHANGED <<today, store, pending, target, subset_cols, prev, batch, remerged, wm,
                   upstream, raw, snap, aggVars, dashVars>>

\* pd.read_json(url) raises: the source is unavailable or the payload malformed
MainFetchFail ==
    /\ pc = "fetch"
    /\ pc' = "failed"
    /\ op' = "fetch_error"
    /\ fetched' = Raised
    /\ UNCHANGED <<today, store, pending, target, subset_cols, prev, batch, remerged, wm,
                   upstream, raw, snap, aggVars, dashVars>>

\* df_new = fetch_secop1_since(start) / fetch_secop2_since(start)
MainFetch ==
    /\ pc = "fetch"
    /\ raw' = ReadJson(Response(upstream[target], wm.n + 1))
    /\ fetched' = FetchFrame(raw')
    /\ pc' = IF fetched'.st = "error" THEN "failed" ELSE "append"
    /\ op' = IF fetched'.st = "error" THEN "fetch_error" ELSE "fetch"
    /\ UNCHANGED <<today, store, pending, target, subset_cols, prev, batch, remerged, wm,
                   upstream, snap, aggVars, dashVars>>

\* append_to_parquet(df_new, path) up to the moment to_parquet opens the file
MainAppend ==
    /\ pc = "append"
    /\ batch' = fetched
    /\ prev' = store[target]
    /\ IF IsEmpty(fetched)
       THEN /\ pc' = "next"
            /\ op' = "noop"
            /\ UNCHANGED <<store, pending>>
       ELSE /\ pending' = MergedFrame(store[target], fetched, subset_cols)
            /\ store' = [store EXCEPT ![target] = Partial]
            /\ pc' = "run_writing"
            /\ op' = "writing"
    /\ UNCHANGED <<today, target, subset_cols, remerged, wm, runVars, aggVars, dashVars>>

\* to_parquet returns
MainWriteFinish ==
    /\ pc = "run_writing"
    /\ store' = [store EXCEPT ![target] = pending]
    /\ pc' = "next"
    /\ op' = "merge"
    /\ UNCHANGED <<today, pending, target, subset_cols, prev, batch, remerged, wm, runVars,
                   aggVars, dashVars>>

\* to_parquet fails, or the process dies, with the file open
MainWriteCrash ==
    /\ pc = "run_writing"
    /\ pc' = "failed"
    /\ op' = "crash"
    /\ UNCHANGED <<today, store, pending, target, subset_cols, prev, batch, remerged, wm,
                   runVars, aggVars, dashVars>>

\* the SECOP 2 section follows the SECOP 1 section; main returns after it
MainNext ==
    /\ pc = "next"
    /\ IF target = "secop1"
       THEN /\ target' = "secop2"
            /\ pc' = "last_date"
       ELSE /\ target' = target
            /\ pc' = "done"
    /\ UNCHANGED <<today, store, pending, subset_cols, hist, wm, runVars, aggVars, dashVars>>

\* the process ends: exit status 0 after "done", non-zero after "failed"
MainExit ==
    /\ pc \in {"done", "failed"}
    /\ pc' = "idle"
    /\ UNCHANGED <<today, store, pending, target, subset_cols, hist, wm, runVars, aggVars, dashVars>>

RunInit ==
    /\ today = Today0
    /\ store = AllAbsent
    /\ pc = "idle"
    /\ pending = EmptyFrame
    /\ target = "secop1"
    /\ subset_cols = {}
    /\ prev = Absent
    /\ batch = EmptyFrame
    /\ op = "init"
    /\ remerged = FALSE
    /\ wm = NaC
    /\ upstream = NoRecords
    /\ raw = EmptyFrame
    /\ fetched = EmptyFrame
    /\ snap = AllAbsent
    /\ df_in = EmptyFrame
    /\ daily = EmptyFrame
    /\ last_n_days = SliderDefault
    /\ df_secop = NoFrames
    /\ view = "none"

RunNext ==
    \/ \E s \in Sources : \E r \in PublishRows(s, today) : Publish(s, r)
    \/ Tick
    \/ MainStart
    \/ MainLastDate
    \/ MainFetchFail
    \/ MainFetch
    \/ MainAppend
    \/ MainWriteFinish
    \/ MainWriteCrash
    \/ MainNext
    \/ MainExit

RunSpec == RunInit /\ [][RunNext]_vars

----------------------------------------------------------------------------
(* build_daily_metrics *)

MetricCols == {"fecha", "n_contratos", "suma_millones", "promedio_millones", "fuente"}

MetricRow(f, n, s, p, src) ==
    [fecha |-> f, n_contratos |-> n, suma_millones |-> s, promedio_millones |-> p,
     fuente |-> src]

RECURSIVE Gcd(_, _)
Gcd(a, b) == IF b = 0 THEN a ELSE Gcd(b, a % b)

\* the quotient a / b of two numbers (b > 0, a >= 0), a fraction in lowest terms
Quotient(a, b) == [num |-> a \div Gcd(a, b), den |-> b \div Gcd(a, b)]

RECURSIVE SumOver(_, _)
\* the total of the value column over the rows at the indices I
SumOver(rows, I) ==
    IF I = {} THEN 0
    ELSE LET i == CHOOSE x \in I : TRUE IN rows[i].valor.n + SumOver(rows, I \ {i})

\* the elements of a set of numbers, largest first (sort_values(ascending=False))
Descending(S) ==
    LET at(k) == CHOOSE x \in S : Cardinality({y \in S : y > x}) = k - 1
    IN  [k \in 1..Cardinality(S) |-> at(k)]

\* the elements of a set of numbers in ascending order
Ascending(S) ==
    LET at(k) == CHOOSE x \in S : Cardinality({y \in S : y < x}) = k - 1
    IN  [k \in 1..Cardinality(S) |-> at(k)]

\* build_daily_metrics as it would be counting every row of a date
\* (n_contratos = size of the group, the value column not in dropna's subset)
BuildDailyMetricsCountAll(df, fuente) ==
    IF IsEmpty(df) THEN [st |-> "ok", cols |-> MetricCols, rows |-> <<>>]
    ELSE LET dated == SelectSeq(df.rows, LAMBDA r : r.fecha # NaC)
             work == [i \in 1..Len(dated) |->
                         [dated[i] EXCEPT !.valor = IF ToNumeric(@) = NaC THEN Num(0)
                                                    ELSE ToNumeric(@)]]
             keys == Ascending({work[i].fecha.t : i \in 1..Len(work)})
             group(k) == {i \in 1..Len(work) : work[i].fecha.t = k}
         IN  [st |-> "ok", cols |-> MetricCols,
              rows |-> [j \in 1..Len(keys) |->
                  MetricRow(Stamp(keys[j]), Cardinality(group(keys[j])),
                            SumOver(work, group(keys[j])),
                            Quotient(SumOver(work, group(keys[j])),
                                     Cardinality(group(keys[j]))),
                            fuente)]]

\* build_daily_metrics(df, fecha_col, valor_col, fuente)
BuildDailyMetrics(df, fuente) ==
    IF IsEmpty(df) THEN Frame(MetricCols, <<>>)
    ELSE LET coerced == [i \in 1..Len(df.rows) |->
                            [df.rows[i] EXCEPT !.valor = ToNumeric(@)]]
             work == DropNa(Frame(df.cols, coerced)).rows
             \* groupby(fecha_col): one group per distinct value, keys sorted
             keys == Ascending({work[i].fecha.t : i \in 1..Len(work)})
             group(k) == {i \in 1..Len(work) : work[i].fecha.t = k}
         IN  Frame(MetricCols,
                   [j \in 1..Len(keys) |->
                       MetricRow(Stamp(keys[j]),
                                 Cardinality(group(keys[j])),
                                 SumOver(work, group(keys[j])),
                                 Quotient(SumOver(work, group(keys[j])),
                                          Cardinality(group(keys[j]))),
                                 fuente)])

\* the label the dashboard gives the records of a source
Fuente(s) == IF s = "secop1" THEN "SECOP 1" ELSE "SECOP 2"

\* the dates and values of the frames handed to build_daily_metrics: two
\* times of 2024-01-01, midnight of 2024-01-02 and a missing date; numbers,
\* numbers as text, a text that is no number and a missing value
AggDates ==
    { Stamp(TS(DateOrdinal(2024, 1, 1), 0)), Stamp(TS(DateOrdinal(2024, 1, 1), 1)),
      Stamp(TS(DateOrdinal(2024, 1, 2), 0)), NaC }

AggValues == {NumStr(<<1, 0>>), NumStr(<<2, 0>>), Num(20), Txt("abc"), NaC}

AggRows == {Row(Txt("E1"), f, v, NaC) : f \in AggDates, v \in AggValues}

AggInputs ==
    {IF Len(rs) = 0 THEN EmptyFrame ELSE Frame({"nombre_entidad", "fecha", "valor"}, rs) :
         rs \in SeqsUpTo(AggRows, MaxAggRows)}

AggInit ==
    /\ today = Today0
    /\ store = AllAbsent
    /\ pc = "agg_in"
    /\ pending = EmptyFrame
    /\ target \in Sources
    /\ subset_cols = {}
    /\ prev = Absent
    /\ batch = EmptyFrame
    /\ op = "init"
    /\ remerged = FALSE
    /\ wm = NaC
    /\ upstream = NoRecords
    /\ raw = EmptyFrame
    /\ fetched = EmptyFrame
    /\ snap = AllAbsent
    /\ df_in \in AggInputs
    /\ daily = EmptyFrame
    /\ last_n_days = SliderDefault
    /\ df_secop = NoFrames
    /\ view = "none"

\* build_daily_metrics(df, fecha_col, valor_col, "SECOP 1")
BuildDaily ==
    /\ pc = "agg_in"
    /\ daily' = BuildDailyMetrics(df_in, Fuente(target))
    /\ pc' = "agg_out"
    /\ UNCHANGED <<today, store, pending, target, subset_cols, hist, wm, runVars, df_in,
                   dashVars>>

AggSpec == AggInit /\ [][BuildDaily]_vars

----------------------------------------------------------------------------
(* app.py: one request to the dashboard *)

\* the values of the day-window slider taken up: least, default and greatest
SliderValues == {10, SliderDefault, 180}

\* the parameters of build_daily_metrics
BuildDailyMetricsParams == {"df", "fecha_col", "valor_col", "fuente"}

\* the keyword arguments of the dashboard's calls of build_daily_metrics
DashKwargs == {"df", "fecha_col", "valor_col", "fuente", "col_id"}

\* a call of build_daily_metrics by keywords: a keyword that is no parameter
\* raises TypeError before the body runs
CallBuildDailyMetrics(kwargs, df, fuente) ==
    IF kwargs \subseteq BuildDailyMetricsParams THEN BuildDailyMetrics(df, fuente)
    ELSE Raised

\* df[df[fecha].dt.date >= start_date]
Window(df, start_date) ==
    IF IsEmpty(df) THEN EmptyFrame
    ELSE Frame(df.cols, SelectSeq(df.rows, LAMBDA r : DateOf(r.fecha.t) >= start_date))

\* the choices of a tab's selectbox (the entity stands for the columns the
\* tabs filter on)
Selections == {"Todos", "E1", "E2"}

\* a tab: a warning for a source without records in the window or under the
\* filter, else the filtered daily metrics and their charts
Tab(s, sel) ==
    IF IsEmpty(df_secop[s]) THEN "warning"
    ELSE LET df1 == IF sel = "Todos" THEN df_secop[s]
                    ELSE Frame(df_secop[s].cols,
                               SelectSeq(df_secop[s].rows,
                                         LAMBDA r : r.nombre_entidad = Txt(sel)))
         IN  IF IsEmpty(df1) THEN "warning"
             ELSE IF CallBuildDailyMetrics(DashKwargs, df1, Fuente(s)).st = "error"
                  THEN "exception"
                  ELSE "charts"

\* the records the stores read by the dashboard hold, as the ingestion writes
\* them: of today, of 30 days ago and of 200 days ago
DashRows ==
    { Row(Txt("E1"), Stamp(TS(Today0, 1)), Num(10), Txt("u")),
      Row(Txt("E2"), Stamp(TS(Today0 - 30, 0)), Num(10), NaC),
      Row(Txt("E1"), Stamp(TS(Today0 - 200, 0)), Num(10), NaC) }

\* a store: no file, a file without records, a file of records
DashStores == {Absent} \cup {Frame(Cols, rs) : rs \in SeqsUpTo(DashRows, MaxDashRows)}

\* the script is started with the slider at some value
DashInit ==
    /\ today = Today0
    /\ store \in [Sources -> DashStores]
    /\ pc = "dash_load"
    /\ pending = EmptyFrame
    /\ target = "secop1"
    /\ subset_cols = {}
    /\ prev = Absent
    /\ batch = EmptyFrame
    /\ op = "init"
    /\ remerged = FALSE
    /\ wm = NaC
    /\ upstream = NoRecords
    /\ raw = EmptyFrame
    /\ fetched = EmptyFrame
    /\ snap = AllAbsent
    /\ df_in = EmptyFrame
    /\ daily = EmptyFrame
    /\ last_n_days \in SliderValues
    /\ df_secop = NoFrames
    /\ view = "none"

\* the files are looked for and read: st.error and st.stop() without either
DashLoad ==
    /\ pc = "dash_load"
    /\ IF \A s \in Sources : store[s].st = "absent"
       THEN /\ view' = "error_message"
            /\ pc' = "dash_stopped"
            /\ df_secop' = df_secop
       ELSE /\ df_secop' = [s \in Sources |->
                               IF store[s].st = "absent" THEN EmptyFrame ELSE store[s]]
            /\ pc' = "dash_window"
            /\ view' = view
    /\ UNCHANGED <<today, store, pending, target, subset_cols, hist, wm, runVars, aggVars,
                   last_n_days>>

\* the time window is cut out: st.warning and st.stop() when it holds nothing
DashWindow ==
    /\ pc = "dash_window"
    /\ df_secop' = [s \in Sources |-> Window(df_secop[s], today - last_n_days)]
    /\ IF \A s \in Sources : IsEmpty(df_secop'[s])
       THEN /\ view' = "warning"
            /\ pc' = "dash_stopped"
       ELSE /\ view' = view
            /\ pc' = "dash_metrics"
    /\ UNCHANGED <<today, store, pending, target, subset_cols, hist, wm, runVars, aggVars,
                   last_n_days>>

\* the global daily metrics of both sources, then the two tabs; an exception
\* of any call ends the script
DashMetrics(sel) ==
    /\ pc = "dash_metrics"
    /\ view' = IF \/ \E s \in Sources :
                        CallBuildDailyMetrics(DashKwargs, df_secop[s], Fuente(s)).st = "error"
                  \/ \E s \in Sources : Tab(s, sel) = "exception"
               THEN "exception"
               ELSE "rendered"
    /\ pc' = "dash_done"
    /\ UNCHANGED <<today, store, pending, target, subset_cols, hist, wm, runVars, aggVars,
                   last_n_days, df_secop>>

DashNext ==
    \/ DashLoad
    \/ DashWindow
    \/ \E sel \in Selections : DashMetrics(sel)

DashSpec == DashInit /\ [][DashNext]_vars

----------------------------------------------------------------------------
(* Properties of the merger and of the watermark, under Spec *)

\* a watermark a is on or after a watermark b
WmGeq(a, b) == a.k = "num" /\ b.k = "num" /\ a.n >= b.n

\* the rows of s at the indices I, in increasing order of index
Pick(s, I) ==
    LET idx(k) == CHOOSE i \in I : Cardinality({j \in I : j < i}) = k - 1
    IN  [k \in 1..Cardinality(I) |-> s[idx(k)]]

HasDuplicates(df, key) ==
    \E i, j \in 1..Len(df.rows) : i < j /\ SameKey(df.rows[i], df.rows[j], key, df.cols)

\* C1: merging a non-empty batch a second time, right after merging it,
\* leaves the store as the first merge left it.
C1_MergeIdempotent ==
    (op = "merge" /\ remerged) => store[target] = prev

\* C2: the persisted store never holds two records that are duplicates
\* under the dedup key (under full-row equality when there is no key).
C2_StoreUnique ==
    \A s \in Sources : store[s].st = "ok" => ~HasDuplicates(store[s], subset_cols)

C3_Covered ==
    \/ (prev.st = "ok" /\ ~IsEmpty(prev))
    \/ \E i \in 1..Len(batch.rows) :
           DateOf(batch.rows[i].fecha.t) >= today - DefaultDaysBack

C4_WriteAtomic ==
    op = "crash" => store[target] = prev

\* C5: a keyed merge into an existing store yields the existing rows followed
\* by the new rows, in that order, with only the first row of each key kept;
\* a one-row batch whose key is in a two-row store of distinct keys leaves
\* the store as it was.
C5_KeyedMerge ==
    (op = "merge" /\ prev.st = "ok" /\ subset_cols # {}) =>
        LET all == prev.rows \o batch.rows
            firsts == {i \in 1..Len(all) :
                          \A j \in 1..(i - 1) :
                              ~SameKey(all[j], all[i], subset_cols, subset_cols)}
        IN  /\ store[target].rows = Pick(all, firsts)
            /\ ( /\ Len(prev.rows) = 2
                 /\ Len(batch.rows) = 1
                 /\ ~HasDuplicates(prev, subset_cols)
                 /\ SameKey(prev.rows[1], batch.rows[1], subset_cols, subset_cols) )
               => store[target].rows = prev.rows

\* a keyed merge of one new version of a stored key into a two-row store
C5_Witness ==
    /\ op = "merge"
    /\ prev.st = "ok"
    /\ subset_cols # {}
    /\ Len(prev.rows) = 2
    /\ Len(batch.rows) = 1
    /\ ~HasDuplicates(prev, subset_cols)
    /\ SameKey(prev.rows[1], batch.rows[1], subset_cols, subset_cols)
    /\ batch.rows[1] # prev.rows[1]
    /\ Len(store[target].rows) = 2

\* C6: a merge loses no record (under a key: no key) of the store and never
\* lowers the number of stored records.
C6_AppendOnly ==
    (op = "merge" /\ prev.st = "ok") =>
        /\ Len(store[target].rows) >= Len(prev.rows)
        /\ \A i \in 1..Len(prev.rows) :
               \E j \in 1..Len(store[target].rows) :
                   SameKey(prev.rows[i], store[target].rows[j], subset_cols, Cols)

\* C9: the watermark is today minus 365 days for an absent or empty store
\* (2023-06-02 on 2024-06-01), otherwise the day of the latest stored
\* timestamp; computing it leaves the store as it was.
C9_WatermarkValue ==
    op = "last_date" =>
        /\ store[target] = prev
        /\ wm.k = "num"
        /\ IF prev.st = "absent" \/ Len(prev.rows) = 0
           THEN /\ wm.n = today - 365
                /\ today = DateOrdinal(2024, 6, 1) => wm.n = DateOrdinal(2023, 6, 2)
           ELSE /\ \E i \in 1..Len(prev.rows) :
                       /\ TS(wm.n, 0) <= prev.rows[i].fecha.t
                       /\ prev.rows[i].fecha.t < TS(wm.n + 1, 0)
                /\ \A i \in 1..Len(prev.rows) : prev.rows[i].fecha.t < TS(wm.n + 1, 0)

\* the watermark of a store whose latest timestamp is not at midnight
C9_Witness ==
    /\ op = "last_date"
    /\ prev.st = "ok"
    /\ \E i \in 1..Len(prev.rows) : prev.rows[i].fecha.t = RecentStamp
    /\ \E i \in 1..Len(prev.rows) : prev.rows[i].fecha.t = OldStamp
    /\ wm = Num(Today0 - 1)
    /\ TS(wm.n, 0) # RecentStamp

----------------------------------------------------------------------------
(* Properties of the fetchers, under FetchSpec and RunSpec *)

\* a row of a payload whose date parses and whose value is a number
ValidRaw(r) == ToDatetime(r.fecha) # NaC /\ ToNumeric(r.valor) # NaC

\* every row of the frame has a date and a numeric value
AllValid(df) ==
    \A i \in 1..Len(df.rows) : df.rows[i].fecha.k = "ts" /\ df.rows[i].valor.k = "num"

\* C7: every record of every persisted store has a date and a numeric value;
\* the fetcher returns exactly the rows of the payload whose date parses and
\* whose value is a number, so no other row reaches the store.
C7_PersistedValid ==
    /\ \A s \in Sources : store[s].st = "ok" => AllValid(store[s])
    /\ pc \in {"append", "run_writing"} =>
           /\ AllValid(fetched)
           /\ Len(fetched.rows) = Cardinality({i \in 1..Len(raw.rows) : ValidRaw(raw.rows[i])})
    /\ pc = "run_writing" => AllValid(pending)

\* a store written from a payload that also held a row without a usable
\* date or value
C7_Witness ==
    /\ op = "merge"
    /\ store[target].st = "ok"
    /\ Len(store[target].rows) > 0
    /\ \E i \in 1..Len(raw.rows) : ToDatetime(raw.rows[i].fecha) = NaC
    /\ Len(fetched.rows) < Len(raw.rows)
    /\ batch = fetched
    /\ Len(store[target].rows) = Len(fetched.rows)

\* the same with a row whose value is no number
C7_WitnessValue ==
    /\ op = "merge"
    /\ Len(store[target].rows) > 0
    /\ \E i \in 1..Len(raw.rows) : ToNumeric(raw.rows[i].valor) = NaC
    /\ Len(fetched.rows) < Len(raw.rows)

\* C8: a fetch of a non-empty payload completes without an error and returns
\* the columns of the fixed set that the payload has, whichever are absent.
C8_AbsentFieldsOmitted ==
    (pc = "fetch_out" /\ Len(raw.rows) > 0) =>
        /\ fetched.st = "ok"
        /\ fetched.cols = raw.cols \cap Cols

----------------------------------------------------------------------------
(* Properties of build_daily_metrics, under AggSpec *)

\* the rows of the input that have a date and a value that is a number
ValidIn == {i \in 1..Len(df_in.rows) :
               df_in.rows[i].fecha # NaC /\ ToNumeric(df_in.rows[i].valor) # NaC}

RECURSIVE TotalOf(_)
\* the total of the values of the input rows at the indices I
TotalOf(I) ==
    IF I = {} THEN 0
    ELSE LET i == CHOOSE x \in I : TRUE
         IN  ToNumeric(df_in.rows[i].valor).n + TotalOf(I \ {i})

RECURSIVE CountSum(_, _)
\* n_contratos added up over the first k rows
CountSum(rows, k) == IF k = 0 THEN 0 ELSE rows[k].n_contratos + CountSum(rows, k - 1)

\* C10: for a non-empty input every output row has the count of the valid
\* input rows of its date (more than zero), their total as sum and sum / count
\* as average; the counts add up to the number of valid input rows.
C10_AggregateArithmetic ==
    (pc = "agg_out" /\ ~IsEmpty(df_in)) =>
        /\ \A j \in 1..Len(daily.rows) :
               LET g == daily.rows[j]
                   of_date == {i \in ValidIn : df_in.rows[i].fecha = g.fecha}
               IN  /\ g.n_contratos = Cardinality(of_date)
                   /\ g.n_contratos > 0
                   /\ g.suma_millones = TotalOf(of_date)
                   /\ g.promedio_millones.den > 0
                   /\ g.promedio_millones.num * g.n_contratos
                          = g.suma_millones * g.promedio_millones.den
        /\ CountSum(daily.rows, Len(daily.rows)) = Cardinality(ValidIn)

\* values "10" and 20 and a value that is no number, all of one date: one row
\* with count 2, sum 30 and average 15
C10_Witness ==
    /\ pc = "agg_out"
    /\ Len(df_in.rows) = 3
    /\ Cardinality(ValidIn) = 2
    /\ Len(daily.rows) = 1
    /\ daily.rows[1].n_contratos = 2
    /\ daily.rows[1].suma_millones = 30
    /\ daily.rows[1].promedio_millones = [num |-> 15, den |-> 1]

\* C11: the rows build_daily_metrics returns are in strictly ascending order
\* of their date value, so no two of them have the same date value, and every
\* row carries the source label the call was given.
C11_AggregateOrdering ==
    pc = "agg_out" =>
        /\ daily.st = "ok"
        /\ \A j \in 1..Len(daily.rows) : \A k \in 1..Len(daily.rows) :
               j < k => daily.rows[j].fecha.t < daily.rows[k].fecha.t
        /\ \A j \in 1..Len(daily.rows) : daily.rows[j].fuente = Fuente(target)

\* an input whose three valid rows come latest date first, returned as three
\* rows
C11_Witness ==
    /\ pc = "agg_out"
    /\ Len(df_in.rows) = 3
    /\ \A i \in 1..3 : df_in.rows[i].fecha # NaC
    /\ df_in.rows[1].fecha.t > df_in.rows[2].fecha.t
    /\ df_in.rows[2].fecha.t > df_in.rows[3].fecha.t
    /\ Len(daily.rows) = 3

\* C12: two records of one calendar day with different times of day are
\* merged into one output row: no two rows of the result of
\* build_daily_metrics lie on the same calendar day.
C12_CalendarDayGrouping ==
    pc = "agg_out" =>
        \A j \in 1..Len(daily.rows) : \A k \in 1..Len(daily.rows) :
            j # k => DateOf(daily.rows[j].fecha.t) # DateOf(daily.rows[k].fecha.t)

\* the date values of the input rows at the indices I
DatesOf(I) == {df_in.rows[i].fecha : i \in I}

\* C13: the result of build_daily_metrics has the five columns and a row for
\* a date exactly when some input record of that date has a value that
\* coerces to a number; records whose value does not are left out without an
\* error, a date with only such records gets no row, an empty input gives no
\* rows; "10" and "20" on 2024-01-01 with "abc" on 2024-01-02 give the single
\* row (2024-01-01, 2, 30, 15).
C13_AggregateRowExistence ==
    pc = "agg_out" =>
        /\ daily.st = "ok"
        /\ daily.cols = MetricCols
        /\ {daily.rows[j].fecha : j \in 1..Len(daily.rows)} = DatesOf(ValidIn)
        /\ \A j \in 1..Len(daily.rows) : daily.rows[j].n_contratos > 0
        /\ IsEmpty(df_in) => daily.rows = <<>>
        /\ df_in.rows = << Row(Txt("E1"), Stamp(TS(DateOrdinal(2024, 1, 1), 0)),
                               NumStr(<<1, 0>>), NaC),
                           Row(Txt("E1"), Stamp(TS(DateOrdinal(2024, 1, 1), 0)),
                               NumStr(<<2, 0>>), NaC),
                           Row(Txt("E1"), Stamp(TS(DateOrdinal(2024, 1, 2), 0)),
                               Txt("abc"), NaC) >>
             => daily.rows = << MetricRow(Stamp(TS(DateOrdinal(2024, 1, 1), 0)), 2, 30,
                                          [num |-> 15, den |-> 1], Fuente(target)) >>

\* the example's input: a date whose only record has the value "abc" gets no
\* row, the other date gets one
C13_Witness ==
    /\ pc = "agg_out"
    /\ Len(df_in.rows) = 3
    /\ df_in.rows[1].valor = NumStr(<<1, 0>>)
    /\ df_in.rows[2].valor = NumStr(<<2, 0>>)
    /\ df_in.rows[3].valor = Txt("abc")
    /\ df_in.rows[1].fecha = Stamp(TS(DateOrdinal(2024, 1, 1), 0))
    /\ df_in.rows[2].fecha = df_in.rows[1].fecha
    /\ df_in.rows[3].fecha = Stamp(TS(DateOrdinal(2024, 1, 2), 0))
    /\ Len(daily.rows) = 1
    /\ daily.rows[1].fecha = df_in.rows[1].fecha

\* an empty input returns the empty five-column result
C13_WitnessEmpty ==
    /\ pc = "agg_out"
    /\ IsEmpty(df_in)
    /\ daily = Frame(MetricCols, <<>>)

----------------------------------------------------------------------------
(* Properties of main, under RunSpec *)

\* the rows of the file of the current source that it did not hold before
\* append_to_parquet
Added == {j \in 1..Len(store[target].rows) :
             \A i \in 1..Len(prev.rows) : prev.rows[i] # store[target].rows[j]}

\* C14: every record a run adds to a store has a date from the day after the
\* watermark computed in that run up to today; when the day after the
\* watermark is later than today the run makes no fetch for the source and
\* leaves its store as it was.
C14_IngestionWindow ==
    /\ op = "merge" =>
           \A j \in Added :
               /\ wm.n + 1 <= DateOf(store[target].rows[j].fecha.t)
               /\ DateOf(store[target].rows[j].fecha.t) <= today
    /\ pc = "fetch" => wm.n + 1 <= today
    /\ (pc = "next" /\ op = "last_date") =>
           /\ wm.n + 1 > today
           /\ store[target] = snap[target]

\* C15: when the fetch for a source fails, the run is in its failure state
\* (from which the process only exits: the other source is not processed,
\* nothing is retried) and the store of that source is what it was when the
\* run started; a failure in the first section leaves both stores so.
C15_LoudFailure ==
    op = "fetch_error" =>
        /\ pc \in {"failed", "idle"}
        /\ fetched.st = "error"
        /\ store[target] = snap[target]
        /\ target = "secop1" => store = snap

\* the fetch of SECOP 2 fails in a run that has already merged new records
\* of SECOP 1; the SECOP 2 store holds the records of an earlier run
C15_Witness ==
    /\ op = "fetch_error"
    /\ pc = "failed"
    /\ target = "secop2"
    /\ store["secop1"] # snap["secop1"]
    /\ store["secop2"].st = "ok"
    /\ Len(store["secop2"].rows) > 0

\* the failure is a payload without the value column (KeyError in the fetcher)
C15_WitnessMalformed ==
    /\ op = "fetch_error"
    /\ pc = "failed"
    /\ Len(raw.rows) > 0
    /\ "valor" \notin raw.cols

\* the stored form of an upstream record: what the fetcher returns for a
\* payload of that record alone
Stored(r) == FetchFrame(ReadJson(<<r>>)).rows[1]

\* the valid records of a source dated from the first run's start date to
\* today
Due(s) == {i \in 1..Len(upstream[s]) :
              /\ ValidRaw(upstream[s][i])
              /\ DateOf(ToDatetime(upstream[s][i].fecha).t) >= Today0 - DefaultDaysBack + 1
              /\ DateOf(ToDatetime(upstream[s][i].fecha).t) <= today}

\* C17: when a run has completed, every valid upstream record dated from the
\* first run's start date to the day of the run is in the store of its
\* source, also a record that appeared upstream after the run that set the
\* watermark to its day or later.
C17_IngestionComplete ==
    pc = "done" =>
        \A s \in Sources : \A i \in Due(s) :
            /\ store[s].st = "ok"
            /\ \E j \in 1..Len(store[s].rows) : store[s].rows[j] = Stored(upstream[s][i])

----------------------------------------------------------------------------
(* Properties of the dashboard, under DashSpec *)

\* C16: a request to the dashboard ends with the metrics rendered or with a
\* message that there is no data, never in an exception.
C16_DashboardNeverCrashes ==
    /\ view \in {"none", "error_message", "warning", "rendered"}
    /\ pc = "dash_done" => view = "rendered"
    /\ pc = "dash_stopped" => view \in {"error_message", "warning"}

=============================================================================
